---- MODULE Spec2Model ----
(***************************************************************************)
(* Carousel / cycle state machine (carousel.py) and charge-up engine       *)
(* (game_engine.py) of the TTM metrics API, for one user.                  *)
(*                                                                         *)
(* Rotation letters are numbered 1..MaxLetters in their sort order         *)
(* ("A" = 1, "B" = 2, ...).  Timestamps are seconds since the first clock  *)
(* reading.  The database session is the one of database.py:23             *)
(* (autoflush=False): a row added in a handler is not seen by the queries  *)
(* of that handler until its commit.                                       *)
(***************************************************************************)
EXTENDS Integers, Sequences, FiniteSets, TLC

\* ------------------------------------------------------------------------
\* Program constants
\* ------------------------------------------------------------------------
COMPLETIONS_PER_LETTER == 6
INACTIVITY_DAYS == 7
SecondsPerDay == 86400
CHARGE_UP_THRESHOLD_PCT == 85
CHARGE_UP_MAX == 5
CHARGEUP_MIN_WORK_SETS == 8
STAGE_2_MIN_CF_DAYS == 5
BAD_DAY_THRESHOLD_PCT == 80
BAD_DAY_MIN_EXERCISES == 2

\* ------------------------------------------------------------------------
\* Bounds of the model
\* ------------------------------------------------------------------------
MaxLetters == 2
MaxPosition == 25
MaxShortPosition == 7
MaxCycle == 3
MaxTick == 3
MaxWorkSets == 14
MaxBackfill == 8
MaxProcs == 2
MaxSeed == 2
MaxCheckins == 6
MaxSessionLogs == 3

NoRow == -1

LetterUniverse == 1..MaxLetters
Exercises == {"squat", "bench"}

\* the exercise lists a letter of the plan can have
LetterExercises == {{}, {"squat"}, {"squat", "bench"}}

VARIABLES
    workouts,       \* Workout rows: letter -> set of exercise names
    state,          \* the user's CycleState row
    completions,    \* WorkoutCompletion rows: letter -> completion_count or NoRow
    latest_pr,      \* the user's most recent PR row
    clock,          \* index of the current wall-clock reading
    response,       \* what the last carousel call returned
    notifications,  \* notification functions the last advance called
    start,          \* carousel state read at the start of a run of advances
    advances,       \* consecutive successful advances since `start`
    game_states,    \* GameState rows: exercise -> row
    game_update,    \* the last log the game engine processed and its result
    hash_seed,      \* server process -> the seed of its str hashes, None before it starts
    selected,       \* the last reframe variant selection: key, index, process
    pr_log,         \* the user's PR rows, oldest first
    gains,          \* what the last strength-gain computation returned
    checkins,       \* number of the user's CoreFoodsCheckin rows
    stage,          \* what the last stage computation returned, 0 before any
    sessions,       \* caller -> the database session of its advance request in flight
    current,        \* index and letter the last carousel call resolved as current
    bad_day,        \* the last bad-day detection: its inputs and what it returned
    reframes,       \* the reframes of the last game state computed, with its stage
    game            \* the last game state computed: stage, charge-up per exercise

vars == <<workouts, state, completions, latest_pr, clock, response,
          notifications, start, advances, game_states, game_update,
          hash_seed, selected, pr_log, gains, checkins, stage,
          sessions, current, bad_day, reframes, game>>

carousel_vars == <<workouts, state, completions, latest_pr, response,
                   notifications, start, advances>>
game_vars == <<game_states, game_update>>
reframe_vars == <<hash_seed, selected>>
gains_vars == <<pr_log, gains>>
stage_vars == <<checkins, stage>>
view_vars == <<current, bad_day, reframes, game>>
side_vars == <<reframe_vars, gains_vars, stage_vars, sessions, view_vars>>

\* ------------------------------------------------------------------------
\* Wall clock: the readings datetime.utcnow() returns, in seconds: 0, 1h, 7d,
\* 7d + 1s, then whole weeks later.  Their differences sit around the
\* inactivity boundary: 6d23h, 7d - 1s is not among them, 7d, 7d + 1s.
\* ------------------------------------------------------------------------
Instant(i) ==
    CASE i = 0 -> 0
      [] i = 1 -> 3600
      [] i = 2 -> INACTIVITY_DAYS * SecondsPerDay
      [] i = 3 -> INACTIVITY_DAYS * SecondsPerDay + 1
      [] OTHER -> (i - 2) * INACTIVITY_DAYS * SecondsPerDay + 1

now == Instant(clock)

\* ------------------------------------------------------------------------
\* Helpers of carousel.py
\* ------------------------------------------------------------------------
Min(S) == CHOOSE x \in S : \A y \in S : x <= y

RECURSIVE SortedSeq(_)
SortedSeq(S) == IF S = {} THEN << >>
                ELSE <<Min(S)>> \o SortedSeq(S \ {Min(S)})

Range(s) == {s[i] : i \in 1..Len(s)}

\* sorted list of the distinct workout letters of the user
_get_workout_letters(w) == SortedSeq({l \in LetterUniverse : w[l] # {}})

NoState == [exists |-> FALSE, current_position |-> 0,
            deload_mode |-> FALSE, cycle_started_at |-> 0, cycle_number |-> 1]

_get_or_create_cycle_state(st, t) ==
    IF st.exists THEN st
    ELSE [exists |-> TRUE, current_position |-> 0,
          deload_mode |-> FALSE, cycle_started_at |-> t, cycle_number |-> 1]

\* A database session over the WorkoutCompletion rows: `rows` holds the
\* objects of the session, `pending` the letters whose row was added but not
\* flushed yet.
Session(rows) == [rows |-> rows, pending |-> {}]

\* {letter: count} as the queries of this session see it
_get_completions(s, letters) ==
    [l \in Range(letters) |->
        IF s.rows[l] = NoRow \/ l \in s.pending THEN 0 ELSE s.rows[l]]

_increment_completion(s, letter) ==
    IF s.rows[letter] = NoRow
    THEN [rows |-> [s.rows EXCEPT ![letter] = 1], pending |-> s.pending \cup {letter}]
    ELSE [s EXCEPT !.rows[letter] = @ + 1]

_reset_completions(s) ==
    [s EXCEPT !.rows = [l \in DOMAIN s.rows |->
        IF s.rows[l] = NoRow \/ l \in s.pending THEN s.rows[l] ELSE 0]]

\* letters[position % num], with the 0-based index of Python
LetterAt(letters, position) == letters[(position % Len(letters)) + 1]

\* the carousel object of build_carousel_state (None when no letters)
NoCarousel == [valid |-> FALSE, current_position |-> 0, deload_mode |-> FALSE,
               cycle_number |-> 0, completions |-> << >>]

build_carousel_state(st, rows, letters, t) ==
    IF letters = << >> THEN NoCarousel
    ELSE LET s == _get_or_create_cycle_state(st, t) IN
         [valid |-> TRUE, current_position |-> s.current_position,
          deload_mode |-> s.deload_mode, cycle_number |-> s.cycle_number,
          completions |-> _get_completions(Session(rows), letters)]

Resp(op, status, detail) ==
    [op |-> op, status |-> status, detail |-> detail,
     entered_deload |-> FALSE, cycle_reset |-> FALSE, reset |-> FALSE]

\* ------------------------------------------------------------------------
\* Game engine rows (game_engine.py).  Of a GameState row the model keeps
\* the fields the charge-up logic reads and writes.  None is -1.
\* ------------------------------------------------------------------------
None == -1

NoGameState == [exists |-> FALSE, charge_up_count |-> 0,
                charge_up_last_updated |-> None, work_set_count |-> 0]

\* estimated one-rep-max values of a log and the best the caller passes
E1RMs == {0, 84, 85, 110}
Bests == {None, 0, 100}

NoResult == [kind |-> "none", charge_up_released |-> FALSE,
             charge_up_released_count |-> 0, charge_up |-> 0]

NoGameUpdate == [exercise |-> "", estimated_1rm |-> 0, is_pr |-> FALSE,
                 best_e1rm |-> None, charge_up |-> 0,
                 charge_up_released |-> FALSE, charge_up_released_count |-> 0,
                 result |-> NoResult]

\* ------------------------------------------------------------------------
\* Reframe variants (game_engine.py).  REFRAME_COPY has three texts for
\* "R1", two for "R7" and no entry for "R9".  A server process hashes
\* strings with the seed it drew at start-up (no PYTHONHASHSEED is set).
\* ------------------------------------------------------------------------
Procs == 1..MaxProcs
Seeds == 0..MaxSeed

ReframeTypes == {"R1", "R7", "R9"}
ReframeExercises == {"", "squat"}

NumVariants(reframe_type) ==
    CASE reframe_type = "R1" -> 3
      [] reframe_type = "R7" -> 2
      [] OTHER -> 0

\* date.today(), as a day number
today == now \div SecondsPerDay

\* f"{reframe_type}:{exercise or ''}:{date.today().isoformat()}"
ReframeKey(reframe_type, exercise, day) == <<reframe_type, exercise, day>>

\* the key string as a number, one per string
KeyCode(key) ==
    (CASE key[1] = "R1" -> 1 [] key[1] = "R7" -> 2 [] OTHER -> 3)
    + 4 * (IF key[2] = "" THEN 0 ELSE 1)
    + 8 * key[3]

\* hash(key) of the str type: a function of the process's seed and the
\* string, here a linear mix; seed 0 is the unkeyed hash
StrHash(seed, key) == KeyCode(key) * (2 * seed + 1) + seed

NoSelection == [valid |-> FALSE, key |-> <<"", "", 0>>, variant |-> 0, proc |-> 0]

\* ------------------------------------------------------------------------
\* Strength gains of the current cycle (carousel.py).  Percentages are kept
\* in tenths of a percent; for the values of PRValues every division below
\* is exact, so the rounding to one decimal changes nothing.
\* ------------------------------------------------------------------------
\* estimated_1rm values of a logged set (0: a set logged without weight)
PRValues == {0, 100, 125}

\* the function's None
NoGains == [valid |-> FALSE, exercises |-> << >>, avg_change_pct |-> 0]

\* PR rows with timestamp >= cycle_start, ordered by timestamp
CyclePRs(log, cycle_start) ==
    SelectSeq(log, LAMBDA pr : pr.timestamp >= cycle_start)

\* by_exercise[ex_name]
ByExercise(prs, ex_name) == SelectSeq(prs, LAMBDA pr : pr.exercise = ex_name)

\* an exercise is reported from its first record alone
HasGain_one_record(prs) ==
    ~(Len(prs) < 1) /\ ~(prs[1].estimated_1rm <= 0)

\* neither `continue` of the loop over by_exercise is taken
HasGain(prs) ==
    ~(Len(prs) < 2) /\ ~(prs[1].estimated_1rm <= 0)

ChangePct(prs) ==
    ((prs[Len(prs)].estimated_1rm - prs[1].estimated_1rm) * 1000)
        \div prs[1].estimated_1rm

RECURSIVE SumChange(_, _)
SumChange(f, S) ==
    IF S = {} THEN 0
    ELSE LET e == CHOOSE x \in S : TRUE IN f[e] + SumChange(f, S \ {e})

calculate_strength_gains(st, log) ==
    IF ~st.exists THEN NoGains
    ELSE LET cycle_prs == CyclePRs(log, st.cycle_started_at) IN
         IF cycle_prs = << >> THEN NoGains
         ELSE LET names == {e \in Exercises : HasGain(ByExercise(cycle_prs, e))}
                  exercises == [e \in names |-> ChangePct(ByExercise(cycle_prs, e))]
              IN IF names = {} THEN NoGains
                 ELSE [valid |-> TRUE, exercises |-> exercises,
                       avg_change_pct |->
                           SumChange(exercises, names) \div Cardinality(names)]

\* ------------------------------------------------------------------------
\* Two advance requests of one user in flight at once.  Each request has
\* its own session (database.py:79-84): the objects it loaded keep the
\* values of their load until its own commit expires them, and a flush
\* writes the columns whose value differs from the loaded one.
\* ------------------------------------------------------------------------
Callers == {1, 2}

NoSession ==
    [pc |-> "idle",
     loaded |-> NoState,     \* the CycleState object as loaded
     st |-> NoState,         \* the CycleState object as modified
     rows_loaded |-> [l \in LetterUniverse |-> NoRow],
     rows |-> [l \in LetterUniverse |-> NoRow],
     in_map |-> {},          \* letters whose row is in the identity map
     entered_deload |-> FALSE, cycle_reset |-> FALSE,
     raced |-> FALSE]        \* committed first, after both had read

\* the values, before any call, of the variables that record what the
\* reads returned
NoCurrent == [index |-> 0, letter |-> None]

\* the logs of a session, oldest first, and the best of each exercise
\* (0 where the exercise has none)
SessionLogValues == {79, 80, 100}
SessionLogs ==
    UNION {[1..n -> [exercise : Exercises, estimated_1rm : SessionLogValues]] :
              n \in 0..MaxSessionLogs}
BestE1RMs == [Exercises -> {0, 100}]

NoBadDay == [computed |-> FALSE, session_logs |-> << >>,
             best_e1rms |-> [e \in Exercises |-> 0], detected |-> FALSE]

NoReframes == [computed |-> FALSE, stage |-> 0, deload_mode |-> FALSE,
               list |-> {}]

NoGame == [computed |-> FALSE, stage |-> 0,
           counts |-> [e \in Exercises |-> 0],
           charge_up |-> [e \in Exercises |-> 0], pressure |-> {}]

ViewInit ==
    /\ current = NoCurrent
    /\ bad_day = NoBadDay
    /\ reframes = NoReframes
    /\ game = NoGame

\* ------------------------------------------------------------------------
\* Initial state: a user with some workout plan (possibly none), no
\* CycleState, completion rows present (count 0) or absent, nothing logged.
\* ------------------------------------------------------------------------
Init ==
    /\ workouts \in [LetterUniverse -> LetterExercises]
    /\ state = NoState
    /\ completions \in [LetterUniverse -> {NoRow, 0}]
    /\ \A l \in LetterUniverse : workouts[l] = {} => completions[l] = NoRow
    /\ latest_pr = [exists |-> FALSE, timestamp |-> 0, exercise |-> "squat"]
    /\ clock = 0
    /\ response = Resp("none", 200, "")
    /\ notifications = {}
    /\ start = build_carousel_state(state, completions, _get_workout_letters(workouts), 0)
    /\ advances = 0
    /\ game_states = [e \in Exercises |-> NoGameState]
    /\ game_update = NoGameUpdate
    /\ hash_seed = [p \in Procs |-> None]
    /\ selected = NoSelection
    /\ pr_log = << >>
    /\ gains = NoGains
    /\ checkins = 0
    /\ stage = 0
    /\ sessions = [p \in Callers |-> NoSession]
    /\ ViewInit

\* ------------------------------------------------------------------------
\* POST /advance
\* ------------------------------------------------------------------------
AllComplete_above_target(view, letters) ==
    \A l \in Range(letters) : view[l] > COMPLETIONS_PER_LETTER

AllComplete(view, letters) ==
    \A l \in Range(letters) : view[l] >= COMPLETIONS_PER_LETTER

AllDeloadDone_two_passes(view, letters) ==
    \A l \in Range(letters) : view[l] >= 2

AllDeloadDone(view, letters) ==
    \A l \in Range(letters) : view[l] >= 1

\* advance_carousel with the position of the new cycle set to 0 before the
\* unconditional increment
AdvanceTransition_no_rewind(st, rows, letters, t) ==
    LET st0 == _get_or_create_cycle_state(st, t)
        current_letter == LetterAt(letters, st0.current_position)
        s1 == _increment_completion(Session(rows), current_letter)
        view == _get_completions(s1, letters)
        entered_deload == ~st0.deload_mode /\ AllComplete(view, letters)
        cycle_reset == st0.deload_mode /\ AllDeloadDone(view, letters)
        s2 == IF entered_deload \/ cycle_reset THEN _reset_completions(s1) ELSE s1
        st1 == IF entered_deload THEN [st0 EXCEPT !.deload_mode = TRUE]
               ELSE IF cycle_reset
               THEN [st0 EXCEPT !.deload_mode = FALSE,
                                !.cycle_number = @ + 1,
                                !.cycle_started_at = t,
                                !.current_position = 0]
               ELSE st0
        st2 == [st1 EXCEPT !.current_position = @ + 1]
    IN [state |-> st2, rows |-> s2.rows,
        completed_letter |-> current_letter,
        entered_deload |-> entered_deload, cycle_reset |-> cycle_reset]

\* advance_carousel entering deload mode without resetting the counters
AdvanceTransition_counts_kept_on_deload(st, rows, letters, t) ==
    LET st0 == _get_or_create_cycle_state(st, t)
        current_letter == LetterAt(letters, st0.current_position)
        s1 == _increment_completion(Session(rows), current_letter)
        view == _get_completions(s1, letters)
        entered_deload == ~st0.deload_mode /\ AllComplete(view, letters)
        cycle_reset == st0.deload_mode /\ AllDeloadDone(view, letters)
        s2 == IF cycle_reset THEN _reset_completions(s1) ELSE s1
        st1 == IF entered_deload THEN [st0 EXCEPT !.deload_mode = TRUE]
               ELSE IF cycle_reset
               THEN [st0 EXCEPT !.deload_mode = FALSE,
                                !.cycle_number = @ + 1,
                                !.cycle_started_at = t,
                                !.current_position = -1]
               ELSE st0
        st2 == [st1 EXCEPT !.current_position = @ + 1]
    IN [state |-> st2, rows |-> s2.rows,
        completed_letter |-> current_letter,
        entered_deload |-> entered_deload, cycle_reset |-> cycle_reset]

\* the state transition of advance_carousel for a non-empty letter list:
\* the CycleState and completion rows it commits and the flags it reports
AdvanceTransition(st, rows, letters, t) ==
    LET st0 == _get_or_create_cycle_state(st, t)
        current_letter == LetterAt(letters, st0.current_position)
        s1 == _increment_completion(Session(rows), current_letter)
        view == _get_completions(s1, letters)
        entered_deload == ~st0.deload_mode /\ AllComplete(view, letters)
        cycle_reset == st0.deload_mode /\ AllDeloadDone(view, letters)
        s2 == IF entered_deload \/ cycle_reset THEN _reset_completions(s1) ELSE s1
        st1 == IF entered_deload THEN [st0 EXCEPT !.deload_mode = TRUE]
               ELSE IF cycle_reset
               THEN [st0 EXCEPT !.deload_mode = FALSE,
                                !.cycle_number = @ + 1,
                                !.cycle_started_at = t,
                                !.current_position = -1]
               ELSE st0
        st2 == [st1 EXCEPT !.current_position = @ + 1]
    IN [state |-> st2, rows |-> s2.rows,
        completed_letter |-> current_letter,
        entered_deload |-> entered_deload, cycle_reset |-> cycle_reset]

\* a run of advances is followed for one full cycle: the normal passes of
\* every letter and the deload pass
RunLength(letters) == (COMPLETIONS_PER_LETTER + 1) * Len(letters)

\* the elif branch without its test of state.deload_mode
NotificationCalls_any_advance(entered_deload, deload_mode, cycle_reset) ==
    IF entered_deload THEN <<"workout_completion", "deload">>
    ELSE IF ~cycle_reset THEN <<"workout_completion">>
    ELSE << >>

\* the deload notification sent when the deload pass ends as well
NotificationCalls_deload_on_reset(entered_deload, deload_mode, cycle_reset) ==
    IF entered_deload THEN <<"workout_completion", "deload">>
    ELSE IF ~deload_mode /\ ~cycle_reset THEN <<"workout_completion">>
    ELSE IF cycle_reset THEN <<"deload">>
    ELSE << >>

\* the notification functions advance_carousel calls, in call order
NotificationCalls(entered_deload, deload_mode, cycle_reset) ==
    IF entered_deload THEN <<"workout_completion", "deload">>
    ELSE IF ~deload_mode /\ ~cycle_reset THEN <<"workout_completion">>
    ELSE << >>

\* which call of the try block raises, if any
NotifyFaults == {"none", "workout_completion", "deload"}

\* the calls that ran to completion before the except clause took over
Fired(calls, fault) ==
    {calls[i] : i \in {k \in 1..Len(calls) : \A j \in 1..k : calls[j] # fault}}

\* the CycleState looked up, and created, before the letters are checked
StateOnNoWorkouts_created_first(st, t) == _get_or_create_cycle_state(st, t)

\* what the rejected call leaves of the CycleState: the letters are checked
\* before the row is looked up
StateOnNoWorkouts(st, t) == st

\* an exception of the try block reaches no further than its except clause:
\* the handler goes on to return its success response
AdvanceStatus_propagates(raised) == IF raised THEN 500 ELSE 200

AdvanceStatus(raised) == 200

\* advance_carousel when call `fault` of its try block raises
AdvanceWith(limit, fault) ==
      LET letters == _get_workout_letters(workouts) IN
      IF letters = << >>
      THEN /\ response' = Resp("advance", 400, "No workouts configured for this user")
           /\ notifications' = {}
           /\ state' = StateOnNoWorkouts(state, now)
           /\ UNCHANGED <<workouts, completions, latest_pr, clock, start, advances, game_vars, side_vars>>
      ELSE LET r == AdvanceTransition(state, completions, letters, now) IN
           /\ r.state.current_position <= limit
           /\ r.state.cycle_number <= MaxCycle
           /\ state' = r.state
           /\ completions' = r.rows
           /\ notifications' = Fired(NotificationCalls(r.entered_deload,
                                        r.state.deload_mode, r.cycle_reset), fault)
           /\ response' = [Resp("advance", AdvanceStatus(
                               fault \in Range(NotificationCalls(r.entered_deload,
                                   r.state.deload_mode, r.cycle_reset))), "") EXCEPT
                              !.entered_deload = r.entered_deload,
                              !.cycle_reset = r.cycle_reset]
           /\ IF start.valid /\ advances >= 0 /\ advances < RunLength(letters)
              THEN start' = start /\ advances' = advances + 1
              ELSE start' = NoCarousel /\ advances' = 0
           /\ UNCHANGED <<workouts, latest_pr, clock, game_vars, side_vars>>

Advance(limit) == \E fault \in NotifyFaults : AdvanceWith(limit, fault)

advance_carousel == Advance(MaxPosition)

\* the same handler for the short runs of the inactivity scenarios
advance_carousel_short == Advance(MaxShortPosition)

\* ------------------------------------------------------------------------
\* POST /go-back
\* ------------------------------------------------------------------------
\* go_back_carousel decrementing the letter it leaves, not the one it
\* returns to
GoBackTransition_current_letter(st, rows, letters, t) ==
    LET prev_position == st.current_position - 1
        prev_letter == LetterAt(letters, st.current_position)
        rows1 == IF rows[prev_letter] # NoRow /\ rows[prev_letter] > 0
                 THEN [rows EXCEPT ![prev_letter] = @ - 1]
                 ELSE rows
    IN [state |-> [st EXCEPT !.deload_mode = FALSE,
                             !.current_position = prev_position],
        rows |-> rows1]

\* go_back_carousel decrementing without the test completion_count > 0
GoBackTransition_no_floor(st, rows, letters, t) ==
    LET prev_position == st.current_position - 1
        prev_letter == LetterAt(letters, prev_position)
        rows1 == IF rows[prev_letter] # NoRow
                 THEN [rows EXCEPT ![prev_letter] = @ - 1]
                 ELSE rows
    IN [state |-> [st EXCEPT !.deload_mode = FALSE,
                             !.current_position = prev_position],
        rows |-> rows1]

\* go_back_carousel leaving deload the way the end of a deload pass does
GoBackTransition_new_cycle(st, rows, letters, t) ==
    LET prev_position == st.current_position - 1
        prev_letter == LetterAt(letters, prev_position)
        rows1 == IF rows[prev_letter] # NoRow /\ rows[prev_letter] > 0
                 THEN [rows EXCEPT ![prev_letter] = @ - 1]
                 ELSE rows
    IN [state |-> IF st.deload_mode
                  THEN [st EXCEPT !.deload_mode = FALSE,
                                  !.cycle_started_at = t,
                                  !.current_position = prev_position]
                  ELSE [st EXCEPT !.current_position = prev_position],
        rows |-> rows1]

\* the state transition of go_back_carousel once current_position > 0
GoBackTransition(st, rows, letters, t) ==
    LET prev_position == st.current_position - 1
        prev_letter == LetterAt(letters, prev_position)
        rows1 == IF rows[prev_letter] # NoRow /\ rows[prev_letter] > 0
                 THEN [rows EXCEPT ![prev_letter] = @ - 1]
                 ELSE rows
    IN [state |-> [st EXCEPT !.deload_mode = FALSE,
                             !.current_position = prev_position],
        rows |-> rows1]

AlreadyAtStart_below_zero(st) == st.current_position < 0

AlreadyAtStart(st) == st.current_position <= 0

\* advances = -1 marks a run of one plain advance undone by this go-back
go_back_carousel ==
    LET letters == _get_workout_letters(workouts) IN
    /\ notifications' = {}
    /\ IF /\ start.valid /\ advances = 1 /\ state.current_position > 0
          /\ ~response.entered_deload /\ ~response.cycle_reset
       THEN start' = start /\ advances' = -1
       ELSE start' = NoCarousel /\ advances' = 0
    /\ UNCHANGED <<workouts, latest_pr, clock, game_vars, side_vars>>
    /\ IF letters = << >>
       THEN /\ response' = Resp("go_back", 400, "No workouts configured")
            /\ UNCHANGED <<state, completions>>
       ELSE LET st0 == _get_or_create_cycle_state(state, now) IN
            IF AlreadyAtStart(st0)
            THEN /\ response' = Resp("go_back", 400, "Already at the beginning")
                 /\ state' = st0
                 /\ UNCHANGED completions
            ELSE LET r == GoBackTransition(st0, completions, letters, now) IN
                 /\ response' = Resp("go_back", 200, "")
                 /\ state' = r.state
                 /\ completions' = r.rows

\* ------------------------------------------------------------------------
\* Reading the carousel (GetCarouselState)
\* ------------------------------------------------------------------------
get_carousel_state ==
    LET letters == _get_workout_letters(workouts) IN
    /\ state' = IF letters = << >> THEN state
                ELSE _get_or_create_cycle_state(state, now)
    /\ start' = build_carousel_state(state, completions, letters, now)
    /\ advances' = 0
    /\ response' = Resp("state", 200, "")
    /\ notifications' = {}
    /\ UNCHANGED <<workouts, completions, latest_pr, clock, game_vars, side_vars>>

\* ------------------------------------------------------------------------
\* 7-day inactivity check
\* ------------------------------------------------------------------------
\* days_since <= INACTIVITY_DAYS taken for "still active"
Inactive_after_boundary(last_timestamp, t) ==
    ~((t - last_timestamp) <= INACTIVITY_DAYS * SecondsPerDay)

\* days_since < INACTIVITY_DAYS, on seconds
Inactive(last_timestamp, t) ==
    ~((t - last_timestamp) < INACTIVITY_DAYS * SecondsPerDay)

Max(S) == CHOOSE x \in S : \A y \in S : x >= y

\* the letter loop without its break: the last matching letter wins
LastLetterIndex_last_match(w, letters, exercise) ==
    LET hits == {i \in 1..Len(letters) : exercise \in w[letters[i]]} IN
    IF hits = {} THEN -1 ELSE Max(hits) - 1

\* 0-based index of the first letter whose exercises contain the exercise,
\* or -1 (last_letter = None)
LastLetterIndex(w, letters, exercise) ==
    LET hits == {i \in 1..Len(letters) : exercise \in w[letters[i]]} IN
    IF hits = {} THEN -1 ELSE Min(hits) - 1

\* the reset with the numbering of the cycles started again
InactivityReset_restart_numbering(st, rows, w, letters, pr, t) ==
    IF letters = << >> \/ ~pr.exists \/ ~Inactive(pr.timestamp, t)
    THEN [fired |-> FALSE, state |-> st, rows |-> rows]
    ELSE LET st0 == _get_or_create_cycle_state(st, t)
             idx == LastLetterIndex(w, letters, pr.exercise)
             next_idx == IF idx >= 0 THEN (idx + 1) % Len(letters) ELSE 0
         IN [fired |-> TRUE,
             state |-> [st0 EXCEPT !.current_position = next_idx,
                                   !.deload_mode = FALSE,
                                   !.cycle_number = 1,
                                   !.cycle_started_at = t],
             rows |-> _reset_completions(Session(rows)).rows]

InactivityReset(st, rows, w, letters, pr, t) ==
    IF letters = << >> \/ ~pr.exists \/ ~Inactive(pr.timestamp, t)
    THEN [fired |-> FALSE, state |-> st, rows |-> rows]
    ELSE LET st0 == _get_or_create_cycle_state(st, t)
             idx == LastLetterIndex(w, letters, pr.exercise)
             next_idx == IF idx >= 0 THEN (idx + 1) % Len(letters) ELSE 0
         IN [fired |-> TRUE,
             state |-> [st0 EXCEPT !.current_position = next_idx,
                                   !.deload_mode = FALSE,
                                   !.cycle_number = @ + 1,
                                   !.cycle_started_at = t],
             rows |-> _reset_completions(Session(rows)).rows]

check_inactivity_reset ==
    LET r == InactivityReset(state, completions, workouts,
                             _get_workout_letters(workouts), latest_pr, now) IN
    /\ r.state.cycle_number <= MaxCycle
    /\ state' = r.state
    /\ completions' = r.rows
    /\ response' = [Resp("check_inactivity_reset", 200, "") EXCEPT !.reset = r.fired]
    /\ notifications' = {}
    /\ start' = NoCarousel
    /\ advances' = 0
    /\ UNCHANGED <<workouts, latest_pr, clock, game_vars, side_vars>>

\* GET /full: the inactivity check, then the carousel object
get_full_dashboard ==
    LET letters == _get_workout_letters(workouts)
        r == InactivityReset(state, completions, workouts, letters, latest_pr, now)
    IN
    /\ r.state.cycle_number <= MaxCycle
    /\ state' = IF letters = << >> THEN r.state
                ELSE _get_or_create_cycle_state(r.state, now)
    /\ completions' = r.rows
    /\ response' = Resp("full", 200, "")
    /\ notifications' = {}
    /\ start' = NoCarousel
    /\ advances' = 0
    /\ UNCHANGED <<workouts, latest_pr, clock, game_vars, side_vars>>

\* ------------------------------------------------------------------------
\* Logging a lift, and the passing of time
\* ------------------------------------------------------------------------
log_lift ==
    \E e \in Exercises :
        /\ latest_pr' = [exists |-> TRUE, timestamp |-> now, exercise |-> e]
        /\ UNCHANGED <<workouts, state, completions, clock, response,
                       notifications, start, advances, game_vars, side_vars>>

Tick ==
    /\ clock < MaxTick
    /\ clock' \in (clock + 1)..MaxTick
    /\ UNCHANGED <<carousel_vars, game_vars, side_vars>>

\* Scenario runs of the carousel: advances, go-backs and reads.
Next ==
    \/ advance_carousel
    \/ go_back_carousel
    \/ get_carousel_state

Spec == Init /\ [][Next]_vars

\* The carousel under the wall clock: lifts are logged, time passes and the
\* dashboard is read.
NextInactivity ==
    \/ advance_carousel_short
    \/ go_back_carousel
    \/ check_inactivity_reset
    \/ get_full_dashboard
    \/ log_lift
    \/ Tick

InactivitySpec == Init /\ [][NextInactivity]_vars

\* ------------------------------------------------------------------------
\* DELETE /api/coach/members/{user_id}/workouts/{letter}
\* ------------------------------------------------------------------------
coach_delete_workout_letter ==
    \E letter \in LetterUniverse :
        /\ workouts[letter] # {}
        /\ workouts' = [workouts EXCEPT ![letter] = {}]
        /\ completions' = [completions EXCEPT ![letter] = NoRow]
        /\ response' = Resp("delete_letter", 200, "")
        /\ notifications' = {}
        /\ start' = NoCarousel
        /\ advances' = 0
        /\ UNCHANGED <<state, latest_pr, clock, game_vars, side_vars>>

\* The carousel while the coach removes letters from the plan.
NextPlan ==
    \/ advance_carousel_short
    \/ go_back_carousel
    \/ coach_delete_workout_letter

PlanSpec == Init /\ [][NextPlan]_vars

\* ------------------------------------------------------------------------
\* Charge-up (game_engine.py)
\* ------------------------------------------------------------------------
\* estimated_1rm / best_e1rm >= CHARGE_UP_THRESHOLD, on integers
NearBest(estimated_1rm, best_e1rm) ==
    estimated_1rm * 100 >= CHARGE_UP_THRESHOLD_PCT * best_e1rm

BelowActivationFloor_one_early(gs) ==
    gs.work_set_count < CHARGEUP_MIN_WORK_SETS - 1

\* the feature-activation floor of update_charge_up
BelowActivationFloor(gs) == gs.work_set_count < CHARGEUP_MIN_WORK_SETS

Released(count) ==
    IF count > 0
    THEN [kind |-> "released", charge_up_released |-> TRUE,
          charge_up_released_count |-> count, charge_up |-> 0]
    ELSE NoResult

\* the released count read after the counter was zeroed
Release_reads_after_reset(gs, t) ==
    LET gs1 == [gs EXCEPT !.charge_up_count = 0, !.charge_up_last_updated = t] IN
    [gs |-> gs1, result |-> Released(gs1.charge_up_count)]

\* the is_pr branch of update_charge_up
Release(gs, t) ==
    [gs |-> [gs EXCEPT !.charge_up_count = 0, !.charge_up_last_updated = t],
     result |-> Released(gs.charge_up_count)]

\* update_charge_up without the cap of the counter
update_charge_up_uncapped(gs, estimated_1rm, is_pr, best_e1rm, t) ==
    IF ~gs.exists THEN [gs |-> gs, result |-> NoResult]
    ELSE IF BelowActivationFloor(gs)
    THEN [gs |-> gs, result |-> NoResult]
    ELSE IF is_pr
    THEN Release(gs, t)
    ELSE IF best_e1rm # None /\ best_e1rm > 0 /\ estimated_1rm > 0
            /\ NearBest(estimated_1rm, best_e1rm)
    THEN LET n == gs.charge_up_count + 1 IN
         [gs |-> [gs EXCEPT !.charge_up_count = n, !.charge_up_last_updated = t],
          result |-> [kind |-> "charge", charge_up_released |-> FALSE,
                      charge_up_released_count |-> 0, charge_up |-> n]]
    ELSE [gs |-> gs, result |-> NoResult]

\* update_charge_up: the row it leaves and the dict it returns
update_charge_up(gs, estimated_1rm, is_pr, best_e1rm, t) ==
    IF ~gs.exists THEN [gs |-> gs, result |-> NoResult]
    ELSE IF BelowActivationFloor(gs)
    THEN [gs |-> gs, result |-> NoResult]
    ELSE IF is_pr
    THEN Release(gs, t)
    ELSE IF best_e1rm # None /\ best_e1rm > 0 /\ estimated_1rm > 0
            /\ NearBest(estimated_1rm, best_e1rm)
    THEN LET n == IF gs.charge_up_count + 1 < CHARGE_UP_MAX
                  THEN gs.charge_up_count + 1 ELSE CHARGE_UP_MAX IN
         [gs |-> [gs EXCEPT !.charge_up_count = n, !.charge_up_last_updated = t],
          result |-> [kind |-> "charge", charge_up_released |-> FALSE,
                      charge_up_released_count |-> 0, charge_up |-> n]]
    ELSE [gs |-> gs, result |-> NoResult]

get_or_create_game_state(gs) ==
    IF gs.exists THEN gs
    ELSE [exists |-> TRUE, charge_up_count |-> 0,
          charge_up_last_updated |-> None, work_set_count |-> 0]

\* work sets the user has logged over the given exercises
RECURSIVE TotalWorkSets(_, _)
TotalWorkSets(gss, E) ==
    IF E = {} THEN 0
    ELSE LET e == CHOOSE x \in E : TRUE IN
         gss[e].work_set_count + TotalWorkSets(gss, E \ {e})

\* update_game_state_on_log for one log of an exercise
update_game_state_on_log(exercise, estimated_1rm, is_pr, best_e1rm) ==
    LET gs0 == get_or_create_game_state(game_states[exercise])
        gs1 == [gs0 EXCEPT !.work_set_count = @ + 1]
        r == update_charge_up(gs1, estimated_1rm, is_pr, best_e1rm, now)
    IN
    /\ game_states' = [game_states EXCEPT ![exercise] = r.gs]
    /\ TotalWorkSets(game_states', Exercises) <= MaxWorkSets
    /\ game_update' =
          [exercise |-> exercise, estimated_1rm |-> estimated_1rm,
           is_pr |-> is_pr, best_e1rm |-> best_e1rm,
           charge_up |-> IF r.result.kind = "charge"
                         THEN r.result.charge_up ELSE r.gs.charge_up_count,
           charge_up_released |-> r.result.charge_up_released,
           charge_up_released_count |-> r.result.charge_up_released_count,
           result |-> r.result]
    /\ UNCHANGED <<carousel_vars, clock, side_vars>>

log_game_state ==
    \E exercise \in Exercises, estimated_1rm \in E1RMs, is_pr \in BOOLEAN,
       best_e1rm \in Bests :
        update_game_state_on_log(exercise, estimated_1rm, is_pr, best_e1rm)

\* backfill: a GameState row for an exercise with logged history and no row
backfill ==
    \E exercise \in Exercises, n \in 1..MaxBackfill :
        /\ ~game_states[exercise].exists
        /\ game_states' = [game_states EXCEPT ![exercise] =
              [exists |-> TRUE, charge_up_count |-> 0,
               charge_up_last_updated |-> None, work_set_count |-> n]]
        /\ TotalWorkSets(game_states', Exercises) <= MaxWorkSets
        /\ UNCHANGED <<carousel_vars, clock, game_update, side_vars>>

NextGame ==
    \/ log_game_state
    \/ backfill
    \/ Tick

\* the game engine is followed for a user whose plan has every letter
GameInit ==
    /\ Init
    /\ \A l \in LetterUniverse : workouts[l] = Exercises /\ completions[l] = 0


\* ------------------------------------------------------------------------
\* Reframe variant selection
\* ------------------------------------------------------------------------
\* a server process starts (first start, restart, another worker): the
\* interpreter draws the seed of its string hashes
start_server ==
    \E p \in Procs, seed \in Seeds :
        /\ hash_seed' = [hash_seed EXCEPT ![p] = seed]
        /\ UNCHANGED <<carousel_vars, clock, game_vars, selected, gains_vars, stage_vars, sessions, view_vars>>

_select_variant(seed, reframe_type, exercise, day) ==
    IF NumVariants(reframe_type) = 0 THEN 0
    ELSE StrHash(seed, ReframeKey(reframe_type, exercise, day)) % NumVariants(reframe_type)

\* a read served by process p selects the variant of one reframe
select_variant ==
    \E p \in Procs, reframe_type \in ReframeTypes, exercise \in ReframeExercises :
        /\ hash_seed[p] # None
        /\ selected' = [valid |-> TRUE,
                        key |-> ReframeKey(reframe_type, exercise, today),
                        variant |-> _select_variant(hash_seed[p], reframe_type,
                                                    exercise, today),
                        proc |-> p]
        /\ UNCHANGED <<carousel_vars, clock, game_vars, hash_seed, gains_vars, stage_vars, sessions, view_vars>>

NextReframe ==
    \/ start_server
    \/ select_variant
    \/ Tick

ReframeSpec == GameInit /\ [][NextReframe]_vars

\* ------------------------------------------------------------------------
\* Strength gains: logging sets and reading the gains
\* ------------------------------------------------------------------------
\* POST /log: a PR row stamped with the current time; no two rows of the
\* user carry the same timestamp
dashboard_log_exercise ==
    \E exercise \in Exercises, estimated_1rm \in PRValues :
        /\ \A i \in 1..Len(pr_log) : pr_log[i].timestamp < now
        /\ pr_log' = Append(pr_log, [exercise |-> exercise,
                                     estimated_1rm |-> estimated_1rm,
                                     timestamp |-> now])
        /\ latest_pr' = [exists |-> TRUE, timestamp |-> now, exercise |-> exercise]
        /\ UNCHANGED <<workouts, state, completions, clock, response,
                       notifications, start, advances, game_vars,
                       reframe_vars, gains, stage_vars, sessions, view_vars>>

\* GET /api/coach/member: the carousel object, then the strength gains
coach_member_detail ==
    LET letters == _get_workout_letters(workouts)
        st == IF letters = << >> THEN state
              ELSE _get_or_create_cycle_state(state, now)
    IN /\ state' = st
       /\ gains' = calculate_strength_gains(st, pr_log)
       /\ response' = Resp("member_detail", 200, "")
       /\ notifications' = {}
       /\ start' = NoCarousel
       /\ advances' = 0
       /\ UNCHANGED <<workouts, completions, latest_pr, clock, game_vars,
                      reframe_vars, pr_log, stage_vars, sessions, view_vars>>

NextGains ==
    \/ dashboard_log_exercise
    \/ coach_member_detail
    \/ check_inactivity_reset
    \/ Tick

GainsSpec == GameInit /\ [][NextGains]_vars

\* ------------------------------------------------------------------------
\* Stage detection (game_engine.py)
\* ------------------------------------------------------------------------
\* stage 2 from the day after the fifth check-in
compute_stage_after_fifth(cycle, cf_count) ==
    IF cycle.exists /\ cycle.cycle_number >= 3 THEN 3
    ELSE IF (cycle.exists /\ cycle.cycle_number >= 2) \/ cf_count > STAGE_2_MIN_CF_DAYS
         THEN 2
         ELSE 1

compute_stage(cycle, cf_count) ==
    IF cycle.exists /\ cycle.cycle_number >= 3 THEN 3
    ELSE IF (cycle.exists /\ cycle.cycle_number >= 2) \/ cf_count >= STAGE_2_MIN_CF_DAYS
         THEN 2
         ELSE 1

\* a daily core-foods check-in is recorded
core_foods_checkin ==
    /\ checkins < MaxCheckins
    /\ checkins' = checkins + 1
    /\ UNCHANGED <<carousel_vars, clock, game_vars, reframe_vars, gains_vars, stage, sessions, view_vars>>

\* a read computes the user's stage
read_stage ==
    /\ stage' = compute_stage(state, checkins)
    /\ UNCHANGED <<carousel_vars, clock, game_vars, reframe_vars, gains_vars, checkins, sessions, view_vars>>

NextStage ==
    \/ core_foods_checkin
    \/ read_stage
    \/ get_full_dashboard
    \/ log_lift
    \/ Tick

StageSpec == GameInit /\ [][NextStage]_vars

\* ------------------------------------------------------------------------
\* Long runs of advances, go-backs and inactivity checks on a fixed plan
\* ------------------------------------------------------------------------
NextCounters ==
    \/ advance_carousel
    \/ go_back_carousel
    \/ check_inactivity_reset
    \/ Tick

\* a fresh user whose plan has the first n letters, each with the squat:
\* every completion row present at 0, no CycleState, no run of advances
\* being followed.  The user never logged a lift, or logged the last one
\* (a squat, or an exercise of no letter) at least seven days ago, so
\* that every inactivity check is one that resets.
CountersInit ==
    /\ \E n \in LetterUniverse :
          workouts = [l \in LetterUniverse |-> IF l <= n THEN {"squat"} ELSE {}]
    /\ state = NoState
    /\ completions = [l \in LetterUniverse |-> IF workouts[l] = {} THEN NoRow ELSE 0]
    /\ \E logged \in BOOLEAN, e \in Exercises :
          latest_pr = [exists |-> logged, timestamp |-> 0, exercise |-> e]
    /\ clock = 2
    /\ response = Resp("none", 200, "")
    /\ notifications = {}
    /\ start = NoCarousel
    /\ advances = 0
    /\ game_states = [e \in Exercises |-> NoGameState]
    /\ game_update = NoGameUpdate
    /\ hash_seed = [p \in Procs |-> None]
    /\ selected = NoSelection
    /\ pr_log = << >>
    /\ gains = NoGains
    /\ checkins = 0
    /\ stage = 0
    /\ sessions = [p \in Callers |-> NoSession]
    /\ ViewInit

CountersSpec == CountersInit /\ [][NextCounters]_vars

\* The log handling of the game engine is followed for a user with one
\* letter from day 14 on: a row stamped before the clock moves is older
\* than the next now().
LogInit ==
    /\ CountersInit
    /\ \A l \in LetterUniverse : workouts[l] # {} <=> l = 1
    /\ latest_pr = [exists |-> FALSE, timestamp |-> 0, exercise |-> "squat"]

GameSpec == LogInit /\ [][NextGame]_vars

\* ------------------------------------------------------------------------
\* Two advance requests of one user running at once (carousel.py:305-362).
\* Every SELECT and every commit of a request is one step; what a request
\* does to the objects of its own session between two of them is part of
\* the step before.  `state` and `completions` are the committed rows.
\* ------------------------------------------------------------------------

\* the column written as an expression over the stored value
UpdatedCount_in_database(stored, loaded, value) == stored + (value - loaded)

\* completion_count after the flush of a WorkoutCompletion object: the
\* UPDATE carries the value of the object when it differs from the loaded one
UpdatedCount(stored, loaded, value) == IF value # loaded THEN value ELSE stored

\* the column written as an expression over the stored value
UpdatedCycleNumber_in_database(stored, loaded, value) == stored + (value - loaded)

\* cycle_number after the flush of the CycleState object
UpdatedCycleNumber(stored, loaded, value) == IF value # loaded THEN value ELSE stored

\* any other column of the CycleState object after its flush
Updated(stored, loaded, value) == IF value # loaded THEN value ELSE stored

\* db.commit(): the flush of the objects of session s, and the commit
FlushedState(s) ==
    [exists |-> TRUE,
     current_position |-> Updated(state.current_position,
                                  s.loaded.current_position, s.st.current_position),
     deload_mode |-> Updated(state.deload_mode, s.loaded.deload_mode, s.st.deload_mode),
     cycle_started_at |-> Updated(state.cycle_started_at,
                                  s.loaded.cycle_started_at, s.st.cycle_started_at),
     cycle_number |-> UpdatedCycleNumber(state.cycle_number,
                                         s.loaded.cycle_number, s.st.cycle_number)]

FlushedRows(s) ==
    [l \in LetterUniverse |->
        IF l \in s.in_map
        THEN UpdatedCount(completions[l], s.rows_loaded[l], s.rows[l])
        ELSE completions[l]]

\* the other request has read all it reads and has committed nothing
ReadNotCommitted(p) == \A q \in Callers \ {p} : sessions[q].pc = "checked"

\* an advance that runs alone, before the two requests start
advance_before_race ==
    /\ \A p \in Callers : sessions[p].pc = "idle"
    /\ AdvanceWith(MaxPosition, "none")

\* carousel.py:315, _get_or_create_cycle_state: the CycleState row exists
\* and is loaded into the session of p.  The first of the two requests to
\* start records the carousel as it is before the two calls.
load_cycle_state(p) ==
    /\ sessions[p].pc = "idle"
    /\ _get_workout_letters(workouts) # << >>
    /\ state.exists
    /\ sessions' = [sessions EXCEPT ![p] =
                       [@ EXCEPT !.pc = "state", !.loaded = state, !.st = state]]
    /\ IF \A q \in Callers : sessions[q].pc = "idle"
       THEN /\ start' = build_carousel_state(state, completions, _get_workout_letters(workouts), now)
            /\ advances' = 0
       ELSE UNCHANGED <<start, advances>>
    /\ UNCHANGED <<workouts, state, completions, latest_pr, clock, response,
                   notifications, game_vars, reframe_vars, gains_vars, stage_vars, view_vars>>

\* carousel.py:98-111, _increment_completion: the row of the current letter
\* is loaded and its count raised on the object
load_record(p) ==
    /\ sessions[p].pc = "state"
    /\ LET letter == LetterAt(_get_workout_letters(workouts), sessions[p].st.current_position) IN
       sessions' = [sessions EXCEPT ![p] =
                       [@ EXCEPT !.pc = "record",
                                 !.rows_loaded[letter] = completions[letter],
                                 !.rows[letter] = completions[letter] + 1,
                                 !.in_map = {letter}]]
    /\ UNCHANGED <<carousel_vars, clock, game_vars, reframe_vars, gains_vars,
                   stage_vars, view_vars>>

\* carousel.py:326-354, _get_completions and the branch taken on it: the
\* other rows are loaded, the row already in the session keeps the count
\* of its object; on a pass completed the CycleState object and the row
\* objects are changed (the query of _reset_completions finds every row
\* in the session)
check_completions(p) ==
    /\ sessions[p].pc = "record"
    /\ LET s == sessions[p]
           loaded == [l \in LetterUniverse |->
                         IF l \in s.in_map THEN s.rows_loaded[l] ELSE completions[l]]
           rows == [l \in LetterUniverse |->
                         IF l \in s.in_map THEN s.rows[l] ELSE completions[l]]
           view == _get_completions(Session(rows), _get_workout_letters(workouts))
           entered_deload == ~s.st.deload_mode /\ AllComplete(view, _get_workout_letters(workouts))
           cycle_reset == s.st.deload_mode /\ AllDeloadDone(view, _get_workout_letters(workouts))
           st1 == IF entered_deload THEN [s.st EXCEPT !.deload_mode = TRUE]
                  ELSE IF cycle_reset
                  THEN [s.st EXCEPT !.deload_mode = FALSE,
                                    !.cycle_number = @ + 1,
                                    !.cycle_started_at = now,
                                    !.current_position = -1]
                  ELSE s.st
       IN /\ st1.cycle_number <= MaxCycle
          /\ sessions' = [sessions EXCEPT ![p] =
                [@ EXCEPT !.pc = "checked",
                          !.rows_loaded = loaded,
                          !.rows = IF entered_deload \/ cycle_reset
                                   THEN _reset_completions(Session(rows)).rows
                                   ELSE rows,
                          !.in_map = {l \in LetterUniverse : completions[l] # NoRow},
                          !.st = st1,
                          !.entered_deload = entered_deload,
                          !.cycle_reset = cycle_reset]]
    /\ UNCHANGED <<carousel_vars, clock, game_vars, reframe_vars, gains_vars,
                   stage_vars, view_vars>>

\* carousel.py:334 and 354, db.commit() of the branch that completed a
\* pass: the objects are flushed and committed, and expire
commit_pass(p) ==
    /\ sessions[p].pc = "checked"
    /\ sessions[p].entered_deload \/ sessions[p].cycle_reset
    /\ state' = FlushedState(sessions[p])
    /\ completions' = FlushedRows(sessions[p])
    /\ sessions' = [sessions EXCEPT ![p] =
                       [@ EXCEPT !.pc = "committed", !.in_map = {},
                                 !.raced = ReadNotCommitted(p)]]
    /\ UNCHANGED <<workouts, latest_pr, clock, response, notifications, start,
                   advances, game_vars, reframe_vars, gains_vars, stage_vars, view_vars>>

\* carousel.py:357, state.position_started_at: the expired CycleState
\* object is loaded again
reload_cycle_state(p) ==
    /\ sessions[p].pc = "committed"
    /\ sessions' = [sessions EXCEPT ![p] =
                       [@ EXCEPT !.pc = "reloaded", !.loaded = state, !.st = state]]
    /\ UNCHANGED <<carousel_vars, clock, game_vars, reframe_vars, gains_vars,
                   stage_vars, view_vars>>

\* carousel.py:360-362: current_position += 1 on the object, db.commit()
commit_position(p) ==
    /\ \/ sessions[p].pc = "reloaded"
       \/ /\ sessions[p].pc = "checked"
          /\ ~(sessions[p].entered_deload \/ sessions[p].cycle_reset)
    /\ LET s == [sessions[p] EXCEPT !.st.current_position = @ + 1] IN
       /\ s.st.current_position <= MaxPosition
       /\ state' = FlushedState(s)
       /\ completions' = FlushedRows(s)
       /\ sessions' = [sessions EXCEPT ![p] =
                          [s EXCEPT !.pc = "done", !.in_map = {},
                                    !.raced = IF sessions[p].pc = "checked"
                                              THEN ReadNotCommitted(p) ELSE @]]
    /\ UNCHANGED <<workouts, latest_pr, clock, response, notifications, start,
                   advances, game_vars, reframe_vars, gains_vars, stage_vars, view_vars>>

NextRace ==
    \/ advance_before_race
    \/ \E p \in Callers :
          \/ load_cycle_state(p)
          \/ load_record(p)
          \/ check_completions(p)
          \/ commit_pass(p)
          \/ reload_cycle_state(p)
          \/ commit_position(p)

\* a fresh user whose plan has the first n letters, every completion row
\* present at 0, who never logged a lift
RaceInit ==
    /\ CountersInit
    /\ latest_pr = [exists |-> FALSE, timestamp |-> 0, exercise |-> "squat"]

RaceSpec == RaceInit /\ [][NextRace]_vars

\* ------------------------------------------------------------------------
\* The current letter while the coach changes the plan (carousel.py,
\* coach_dashboard.py)
\* ------------------------------------------------------------------------

\* the position taken as an index into the letters, as if the letters had
\* not changed since it was stored (None where Python raises IndexError)
CurrentLetter_stale_index(st, letters) ==
    [index |-> st.current_position,
     letter |-> IF st.current_position + 1 \in DOMAIN letters
                THEN letters[st.current_position + 1] ELSE None]

\* carousel.py:201-204 and 318-319: letters[state.current_position % num]
CurrentLetter(st, letters) ==
    [index |-> st.current_position % Len(letters),
     letter |-> letters[(st.current_position % Len(letters)) + 1]]

\* GET /carousel, with the current letter of the carousel object
read_current_letter ==
    LET letters == _get_workout_letters(workouts) IN
    /\ state' = IF letters = << >> THEN state
                ELSE _get_or_create_cycle_state(state, now)
    /\ current' = IF letters = << >> THEN NoCurrent
                  ELSE CurrentLetter(_get_or_create_cycle_state(state, now), letters)
    /\ start' = build_carousel_state(state, completions, letters, now)
    /\ advances' = 0
    /\ response' = Resp("state", 200, "")
    /\ notifications' = {}
    /\ UNCHANGED <<workouts, completions, latest_pr, clock, game_vars,
                   reframe_vars, gains_vars, stage_vars, sessions, bad_day, reframes, game>>

\* POST /advance on a plan with letters, with the letter it completes
advance_current_letter ==
    LET letters == _get_workout_letters(workouts) IN
    /\ letters # << >>
    /\ LET r == AdvanceTransition(state, completions, letters, now) IN
       /\ r.state.current_position <= MaxShortPosition
       /\ r.state.cycle_number <= MaxCycle
       /\ state' = r.state
       /\ completions' = r.rows
       /\ current' = [CurrentLetter(_get_or_create_cycle_state(state, now), letters)
                         EXCEPT !.letter = r.completed_letter]
       /\ response' = [Resp("advance", 200, "") EXCEPT
                          !.entered_deload = r.entered_deload,
                          !.cycle_reset = r.cycle_reset]
    /\ notifications' = {}
    /\ start' = NoCarousel
    /\ advances' = 0
    /\ UNCHANGED <<workouts, latest_pr, clock, game_vars,
                   reframe_vars, gains_vars, stage_vars, sessions, bad_day, reframes, game>>

\* PATCH /api/coach/members/{user_id}/workouts/{letter}: the exercises of
\* the letter are replaced and its WorkoutCompletion row is ensured
coach_update_workout_letter ==
    \E letter \in LetterUniverse, exercises \in LetterExercises \ {{}} :
        /\ workouts[letter] # exercises
        /\ workouts' = [workouts EXCEPT ![letter] = exercises]
        /\ completions' = [completions EXCEPT ![letter] = IF @ = NoRow THEN 0 ELSE @]
        /\ response' = Resp("update_letter", 200, "")
        /\ notifications' = {}
        /\ start' = NoCarousel
        /\ advances' = 0
        /\ UNCHANGED <<state, latest_pr, clock, game_vars, side_vars>>

NextRotation ==
    \/ read_current_letter
    \/ advance_current_letter
    \/ coach_update_workout_letter
    \/ coach_delete_workout_letter

RotationSpec == Init /\ [][NextRotation]_vars

\* ------------------------------------------------------------------------
\* Bad-day detection (game_engine.py:141-155)
\* ------------------------------------------------------------------------

\* log["estimated_1rm"] / best < BAD_DAY_THRESHOLD, on integers
BelowBadDayThreshold(estimated_1rm, best) ==
    estimated_1rm * 100 < BAD_DAY_THRESHOLD_PCT * best

\* below_count after the loop over the first n logs
RECURSIVE BelowCount(_, _, _)
BelowCount(session_logs, best_e1rms, n) ==
    IF n = 0 THEN 0
    ELSE LET log == session_logs[n]
             best == best_e1rms[log.exercise]
         IN BelowCount(session_logs, best_e1rms, n - 1)
            + (IF best <= 0 THEN 0
               ELSE IF BelowBadDayThreshold(log.estimated_1rm, best) THEN 1 ELSE 0)

detect_bad_day(session_logs, best_e1rms) ==
    BelowCount(session_logs, best_e1rms, Len(session_logs)) >= BAD_DAY_MIN_EXERCISES

\* game_engine.py:645-655: the detection over the logs of the session
compute_bad_day ==
    /\ ~bad_day.computed
    /\ \E session_logs \in SessionLogs, best_e1rms \in BestE1RMs :
          bad_day' = [computed |-> TRUE, session_logs |-> session_logs,
                      best_e1rms |-> best_e1rms,
                      detected |-> detect_bad_day(session_logs, best_e1rms)]
    /\ UNCHANGED <<carousel_vars, clock, game_vars, reframe_vars, gains_vars,
                   stage_vars, sessions, current, reframes, game>>

NextBadDay == compute_bad_day

BadDaySpec == GameInit /\ [][NextBadDay]_vars

\* ------------------------------------------------------------------------
\* Reframes of the game state (game_engine.py:346-411, 677-692).  A reframe
\* is kept as <<type, exercise>>, with "" for no exercise; every type that
\* compute_reframes builds has copy in REFRAME_COPY.
\* ------------------------------------------------------------------------

\* the GameState rows, the flags and the summaries a computation can meet
ChargeRows ==
    [Exercises -> [charge_up_count : {0, 2},
                   work_set_count : {CHARGEUP_MIN_WORK_SETS - 1, CHARGEUP_MIN_WORK_SETS}]]
SwapSets == {{}, {"bench"}}
NoSummary == [exists |-> FALSE, cycle_number |-> 0, total_prs |-> 0,
              previous_cycle |-> None, avg_strength_change_pct |-> 0]
CycleSummaries ==
    {NoSummary} \cup [exists : {TRUE}, cycle_number : {2, 3}, total_prs : {1, 2},
                      previous_cycle : {None, 2},
                      avg_strength_change_pct : {0, 3, 5}]

\* the swapped_exercises argument: a list of names, or None
NoSwaps == [given |-> FALSE, names |-> {}]
Swapped(names) == [given |-> TRUE, names |-> names]

\* compute_reframes without its return at stage < 3
compute_reframes_ungated(stage_, exercises_game_state, return_from_disruption, core_foods_during_gap, bad_day_detected, deload_mode, swapped_exercises, cycle_summary) ==
    (IF return_from_disruption
     THEN {<<"R4", "">>} \cup (IF core_foods_during_gap THEN {<<"R7", "">>} ELSE {})
     ELSE {})
    \cup
    (IF deload_mode
     THEN {<<"R6", "">>}
          \cup (IF cycle_summary.exists /\ stage_ >= 3
                THEN (IF /\ cycle_summary.cycle_number >= 3
                         /\ cycle_summary.previous_cycle # None
                         /\ cycle_summary.total_prs < cycle_summary.previous_cycle
                      THEN {<<"R2", "">>} ELSE {})
                     \cup
                     (IF /\ cycle_summary.cycle_number >= 3
                         /\ 0 < cycle_summary.avg_strength_change_pct
                         /\ cycle_summary.avg_strength_change_pct < 5
                      THEN {<<"R13", "">>} ELSE {})
                ELSE {})
     ELSE {})
    \cup
    ({<<"R1", e>> : e \in {x \in Exercises :
                        /\ exercises_game_state[x].charge_up_count > 0
                        /\ exercises_game_state[x].work_set_count
                               >= CHARGEUP_MIN_WORK_SETS}}
     \cup (IF bad_day_detected THEN {<<"R3", "">>} ELSE {})
     \cup (IF swapped_exercises.given
           THEN {<<"R14", e>> : e \in swapped_exercises.names} ELSE {}))

compute_reframes(stage_, exercises_game_state, return_from_disruption, core_foods_during_gap, bad_day_detected, deload_mode, swapped_exercises, cycle_summary) ==
    (IF return_from_disruption
     THEN {<<"R4", "">>} \cup (IF core_foods_during_gap THEN {<<"R7", "">>} ELSE {})
     ELSE {})
    \cup
    (IF deload_mode
     THEN {<<"R6", "">>}
          \cup (IF cycle_summary.exists /\ stage_ >= 3
                THEN (IF /\ cycle_summary.cycle_number >= 3
                         /\ cycle_summary.previous_cycle # None
                         /\ cycle_summary.total_prs < cycle_summary.previous_cycle
                      THEN {<<"R2", "">>} ELSE {})
                     \cup
                     (IF /\ cycle_summary.cycle_number >= 3
                         /\ 0 < cycle_summary.avg_strength_change_pct
                         /\ cycle_summary.avg_strength_change_pct < 5
                      THEN {<<"R13", "">>} ELSE {})
                ELSE {})
     ELSE {})
    \cup
    (IF stage_ < 3 THEN {}
     ELSE {<<"R1", e>> : e \in {x \in Exercises :
                             /\ exercises_game_state[x].charge_up_count > 0
                             /\ exercises_game_state[x].work_set_count
                                    >= CHARGEUP_MIN_WORK_SETS}}
          \cup (IF bad_day_detected THEN {<<"R3", "">>} ELSE {})
          \cup (IF swapped_exercises.given
                THEN {<<"R14", e>> : e \in swapped_exercises.names} ELSE {}))

\* game_engine.py:677-692: the reframes of compute_game_state, which passes
\* the cycle summary in deload mode only
compute_game_reframes ==
    /\ ~reframes.computed
    /\ \E stage_ \in 1..3, rows \in ChargeRows, swaps \in SwapSets,
          is_returning \in BOOLEAN, cf_during_gap \in BOOLEAN,
          bad_day_detected \in BOOLEAN, deload_mode \in BOOLEAN,
          summary \in CycleSummaries :
          /\ cf_during_gap => is_returning
          /\ reframes' =
                [computed |-> TRUE, stage |-> stage_, deload_mode |-> deload_mode,
                 list |-> compute_reframes(stage_, rows, is_returning, cf_during_gap,
                              bad_day_detected, deload_mode,
                              IF stage_ >= 3 THEN Swapped(swaps) ELSE NoSwaps,
                              IF deload_mode THEN summary ELSE NoSummary)]
    /\ UNCHANGED <<carousel_vars, clock, game_vars, reframe_vars, gains_vars,
                   stage_vars, sessions, current, bad_day, game>>

NextReframes == compute_game_reframes

ReframesSpec == GameInit /\ [][NextReframes]_vars

\* ------------------------------------------------------------------------
\* Charge-up decay and the computed game state (game_engine.py:121-134,
\* 592-624)
\* ------------------------------------------------------------------------

\* the decay check left out
check_charge_up_decay_skipped(cycle, gss) == gss

\* check_charge_up_decay: the GameState objects of the session after it
check_charge_up_decay(cycle, gss) ==
    IF ~cycle.exists THEN gss
    ELSE [e \in Exercises |->
            IF /\ gss[e].exists
               /\ gss[e].charge_up_count > 0
               /\ gss[e].charge_up_last_updated # None
               /\ cycle.cycle_started_at > gss[e].charge_up_last_updated
            THEN [gss[e] EXCEPT !.charge_up_count = 0]
            ELSE gss[e]]

\* compute_game_state for a user with no WorkoutSession row, called with
\* no sessions and no swaps and with the deload_mode of the CycleState:
\* the stage, the decay check, the per-exercise data and the reframes, in
\* that order.  The function does not commit; what it changed on the rows
\* is kept when its caller commits the session.
compute_game_state ==
    \E committed \in BOOLEAN :
        LET stage_ == compute_stage(state, checkins)
            rows == check_charge_up_decay(state, game_states)
            deload_mode == state.exists /\ state.deload_mode
            list == compute_reframes(stage_, rows, FALSE, FALSE, FALSE, deload_mode,
                        IF stage_ >= 3 THEN Swapped({}) ELSE NoSwaps,
                        IF deload_mode THEN [NoSummary EXCEPT !.exists = TRUE,
                                                 !.cycle_number = state.cycle_number]
                        ELSE NoSummary)
        IN
        /\ game' = [computed |-> TRUE, stage |-> stage_,
                    counts |-> [e \in Exercises |-> rows[e].charge_up_count],
                    charge_up |-> [e \in Exercises |->
                        IF rows[e].exists /\ stage_ >= 3
                        THEN rows[e].charge_up_count ELSE 0],
                    pressure |-> {e \in Exercises : <<"R1", e>> \in list}]
        /\ game_states' = IF committed THEN rows ELSE game_states
        /\ UNCHANGED <<carousel_vars, clock, game_update, reframe_vars, gains_vars,
                       stage_vars, sessions, current, bad_day, reframes>>

\* a set of an exercise whose best is 100: near the best, or a new best
log_set ==
    \E exercise \in Exercises, is_pr \in BOOLEAN :
        update_game_state_on_log(exercise, IF is_pr THEN 110 ELSE 85, is_pr, 100)

NextDecay ==
    \/ backfill
    \/ log_set
    \/ check_inactivity_reset
    \/ compute_game_state
    \/ Tick

\* a user with one letter and a lift logged at instant 0, no CycleState yet
DecayInit ==
    /\ CountersInit
    /\ \A l \in LetterUniverse : workouts[l] # {} <=> l = 1
    /\ latest_pr = [exists |-> TRUE, timestamp |-> 0, exercise |-> "squat"]

DecaySpec == DecayInit /\ [][NextDecay]_vars

\* ------------------------------------------------------------------------
\* Properties
\* ------------------------------------------------------------------------
Letters == _get_workout_letters(workouts)
NumLetters == Len(Letters)

\* the completion counters as the carousel reads them
Counts == _get_completions(Session(completions), Letters)
CountsAllZero == \A l \in Range(Letters) : Counts[l] = 0

\* the run started from a fresh CycleState: position 0, Normal, cycle 1,
\* every counter 0
FreshStart ==
    /\ start.valid
    /\ start.current_position = 0
    /\ ~start.deload_mode
    /\ start.cycle_number = 1
    /\ \A l \in DOMAIN start.completions : start.completions[l] = 0

\* the run started in Deload with every counter 0
DeloadStart ==
    /\ start.valid
    /\ start.deload_mode
    /\ \A l \in DOMAIN start.completions : start.completions[l] = 0

\* C1: from a fresh state with N letters, consecutive advances enter Deload
\* on exactly the (N*6)-th call: deload_mode is false after each of the first
\* N*6-1 calls; after the (N*6)-th it is true, entered_deload is reported and
\* every counter reads 0.
C1_DeloadOnTheLastNormalPass ==
    (FreshStart /\ advances >= 1) =>
        /\ advances < NumLetters * 6 =>
              ~state.deload_mode /\ ~response.entered_deload
        /\ advances = NumLetters * 6 =>
              state.deload_mode /\ response.entered_deload /\ CountsAllZero

C1_Witness ==
    /\ FreshStart
    /\ NumLetters = 2
    /\ advances = 12
    /\ state.deload_mode
    /\ response.entered_deload

\* C2: from Deload with every counter 0, at any position, deload_mode stays
\* true through the first N-1 consecutive advances; after exactly N advances
\* deload_mode is false, cycle_reset is reported, cycle_number is one more
\* than at the start, every counter is 0 and current_position mod N = 0.
C2_DeloadPassTakesNAdvances ==
    (DeloadStart /\ advances >= 0) =>
        /\ advances < NumLetters =>
              state.deload_mode /\ ~response.cycle_reset
        /\ advances = NumLetters =>
              /\ ~state.deload_mode
              /\ response.cycle_reset
              /\ state.cycle_number = start.cycle_number + 1
              /\ CountsAllZero
              /\ state.current_position % NumLetters = 0

C2_Witness ==
    /\ DeloadStart
    /\ NumLetters = 2
    /\ start.current_position % 2 = 1
    /\ advances = 2
    /\ ~state.deload_mode
    /\ response.cycle_reset

\* C3: from a fresh state 7*N consecutive advances leave cycle_number 2,
\* deload_mode false, every counter 0 and current_position mod N = 0; with
\* two letters the 12th advance, and no earlier one, enters Deload and the
\* 14th, and no earlier one, completes the deload pass.
C3_FullCycle ==
    (FreshStart /\ advances >= 1) =>
        /\ advances = 7 * NumLetters =>
              /\ state.cycle_number = 2
              /\ ~state.deload_mode
              /\ CountsAllZero
              /\ state.current_position % NumLetters = 0
        /\ NumLetters = 2 =>
              /\ response.entered_deload <=> advances = 12
              /\ response.cycle_reset <=> advances = 14

C3_Witness ==
    /\ FreshStart
    /\ NumLetters = 2
    /\ advances = 14
    /\ state.cycle_number = 2
    /\ state.current_position = 0
    /\ response.cycle_reset

\* C4: an advance that neither enters Deload nor completes a deload pass,
\* immediately followed by go-back, leaves current_position and the counter
\* of the letter the advance incremented at their values before the advance.
C4_GoBackUndoesPlainAdvance ==
    [][(/\ go_back_carousel
        /\ start.valid
        /\ advances = 1
        /\ ~response.entered_deload
        /\ ~response.cycle_reset)
       => LET touched == LetterAt(Letters, start.current_position) IN
          /\ state'.current_position = start.current_position
          /\ Counts'[touched] = start.completions[touched]]_vars

C4_Witness ==
    /\ start.valid
    /\ advances = -1
    /\ response.op = "go_back"
    /\ response.status = 200
    /\ NumLetters = 2
    /\ start.current_position = 3
    /\ state.current_position = 3
    /\ Counts[2] = start.completions[2]
    /\ start.completions[2] = 1

\* C5 as stated: go-back at current_position <= 0 fails with 'Already at
\* the beginning' and changes nothing.
C5_AsStated ==
    [][(go_back_carousel /\ state.current_position <= 0)
       => /\ response'.status = 400
          /\ response'.detail = "Already at the beginning"
          /\ state'.current_position = state.current_position
          /\ state'.deload_mode = state.deload_mode
          /\ state'.cycle_number = state.cycle_number
          /\ (state.exists => state' = state)
          /\ completions' = completions]_vars

\* C5 amended: go-back at current_position <= 0 fails with HTTP 400 and
\* changes nothing (position, mode, cycle and counters keep their values or
\* the lazily created defaults); the failure is 'Already at the beginning'
\* when the user has rotation letters and 'No workouts configured' when the
\* letter set is empty.
C5_GoBackAtStartFails ==
    [][(go_back_carousel /\ state.current_position <= 0)
       => /\ response'.status = 400
          /\ response'.detail = IF Letters = << >>
                                THEN "No workouts configured"
                                ELSE "Already at the beginning"
          /\ state'.current_position = state.current_position
          /\ state'.deload_mode = state.deload_mode
          /\ state'.cycle_number = state.cycle_number
          /\ (state.exists => state' = state)
          /\ completions' = completions]_vars

C5_Witness ==
    /\ Letters # << >>
    /\ response.op = "go_back"
    /\ response.status = 400
    /\ response.detail = "Already at the beginning"
    /\ state.exists
    /\ state.current_position = 0
    /\ state.cycle_number = 2

\* C6: advance for a user with no rotation letters fails with 'No workouts
\* configured for this user' and mutates nothing: no CycleState is created or
\* changed, no completion row is created or incremented, no notification is
\* fired.
C6_AdvanceWithoutLettersFails ==
    [][(advance_carousel_short /\ Letters = << >>)
       => /\ response'.status = 400
          /\ response'.detail = "No workouts configured for this user"
          /\ state' = state
          /\ completions' = completions
          /\ notifications' = {}]_vars

C6_Witness ==
    /\ Letters = << >>
    /\ response.op = "advance"
    /\ response.status = 400
    /\ state.exists
    /\ state.current_position = 3
    /\ \A l \in LetterUniverse : completions[l] = NoRow
    /\ notifications = {}

\* the most recent lift record is at least 7 full days old
LatestRecordOld ==
    latest_pr.exists /\ now - latest_pr.timestamp >= 7 * 86400

\* C7 as stated: the inactivity check resets if and only if a lift record
\* exists and the most recent one is at least 7 full days old; otherwise
\* CycleState and counters are unchanged and it returns false.
C7_AsStated ==
    [][check_inactivity_reset
       => /\ response'.reset <=> LatestRecordOld
          /\ ~response'.reset => state' = state /\ completions' = completions]_vars

\* C7 amended: for a user with at least one rotation letter the inactivity
\* check resets if and only if a lift record exists and the most recent one
\* is at least 7 full days old; for a user with no rotation letters it never
\* resets; whenever it does not reset, CycleState and counters are unchanged
\* and it returns false.
C7_InactivityBoundary ==
    [][check_inactivity_reset
       => /\ response'.reset <=> (Letters # << >> /\ LatestRecordOld)
          /\ ~response'.reset => state' = state /\ completions' = completions]_vars

C7_Witness ==
    /\ response.op = "check_inactivity_reset"
    /\ response.reset
    /\ latest_pr.exists
    /\ now - latest_pr.timestamp = 7 * 86400 + 1
    /\ state.cycle_started_at = now

\* C8: when the inactivity check fires with N letters, current_position
\* becomes (index of the first letter, in sorted order, whose exercises
\* contain the most recent record's exercise, plus 1) mod N, or 0 when no
\* letter contains it; deload_mode becomes false; cycle_number grows by
\* exactly 1; cycle_started_at becomes now; every counter becomes 0.
C8_InactivityResetEffect ==
    [][(check_inactivity_reset /\ response'.reset)
       => LET holders == {i \in 0..(NumLetters - 1) :
                            latest_pr.exercise \in workouts[Letters[i + 1]]}
              first == CHOOSE i \in holders : \A j \in holders : i <= j
          IN /\ state'.current_position =
                    IF holders = {} THEN 0 ELSE (first + 1) % NumLetters
             /\ ~state'.deload_mode
             /\ state'.cycle_number = state.cycle_number + 1
             /\ state'.cycle_started_at = now
             /\ \A l \in LetterUniverse : completions'[l] \in {0, NoRow}]_vars

C8_Witness ==
    /\ response.op = "check_inactivity_reset"
    /\ response.reset
    /\ NumLetters = 2
    /\ latest_pr.exercise = "squat"
    /\ workouts[1] = {"squat"}
    /\ workouts[2] = {"squat", "bench"}
    /\ state.current_position = 1
    /\ state.cycle_number = 2
    /\ state.cycle_started_at = now
    /\ CountsAllZero

\* a log of exercise e is processed in this step: the step is the one
\* update_game_state_on_log takes on the inputs it records
LogProcessed(e) ==
    /\ game_update'.estimated_1rm \in E1RMs
    /\ game_update'.best_e1rm \in Bests
    /\ update_game_state_on_log(e, game_update'.estimated_1rm, game_update'.is_pr,
                                game_update'.best_e1rm)

\* C9: while work_set_count, counting the log being processed, is below 8,
\* processing a log changes neither charge_up_count nor
\* charge_up_last_updated and emits no charge-up event, whatever the log.
C9_ChargeUpActivationFloor ==
    [][\A e \in Exercises :
          (LogProcessed(e) /\ game_states'[e].work_set_count < 8)
          => /\ game_states'[e].charge_up_count = game_states[e].charge_up_count
             /\ game_states'[e].charge_up_last_updated
                   = game_states[e].charge_up_last_updated
             /\ game_update'.result.kind = "none"
             /\ ~game_update'.charge_up_released]_vars

C9_Witness ==
    /\ game_update.exercise = "squat"
    /\ game_states["squat"].work_set_count = 7
    /\ ~game_update.is_pr
    /\ game_update.estimated_1rm = 85
    /\ game_update.best_e1rm = 100
    /\ game_states["squat"].charge_up_count = 0
    /\ game_states["squat"].charge_up_last_updated = None

\* C10: with work_set_count >= 8 and charge_up_count = k, a new best sets
\* charge_up_count to 0 and stamps charge_up_last_updated with now; a
\* released event carrying released_count = k is emitted if and only if
\* k > 0.
C10_ChargeUpRelease ==
    [][\A e \in Exercises :
          (/\ LogProcessed(e)
           /\ game_update'.is_pr
           /\ game_states'[e].work_set_count >= 8)
          => LET k == game_states[e].charge_up_count IN
             /\ game_states'[e].charge_up_count = 0
             /\ game_states'[e].charge_up_last_updated = now
             /\ game_update'.charge_up_released <=> k > 0
             /\ game_update'.result.kind = "released" <=> k > 0
             /\ k > 0 => game_update'.charge_up_released_count = k]_vars

C10_Witness ==
    /\ game_update.exercise = "squat"
    /\ game_update.is_pr
    /\ game_update.charge_up_released
    /\ game_update.charge_up_released_count = 3
    /\ game_states["squat"].charge_up_count = 0
    /\ game_states["squat"].charge_up_last_updated # None

\* C11: reframe variant selection is deterministic: two selections for the
\* same (reframe type, exercise, calendar day) return the same variant
\* index, whichever server process serves them and whether or not a process
\* restarted in between.
C11_SelectVariantDeterministic ==
    [][(select_variant /\ selected.valid /\ selected'.key = selected.key)
       => selected'.variant = selected.variant]_vars

\* indices of the PR rows of exercise e stamped at or after cycle_start
WindowRows(e, cycle_start) ==
    {i \in 1..Len(pr_log) :
        pr_log[i].exercise = e /\ pr_log[i].timestamp >= cycle_start}

\* C12: the strength gains include an exercise if and only if it has at
\* least 2 lift records at or after cycle_started_at and the first of them
\* has a value > 0; when no exercise qualifies the result is None.
C12_StrengthGainSkipRule ==
    [][coach_member_detail
       => LET W(e) == WindowRows(e, state'.cycle_started_at)
              Qualifies(e) == /\ Cardinality(W(e)) >= 2
                              /\ pr_log[Min(W(e))].estimated_1rm > 0
          IN /\ \A e \in Exercises :
                   (gains'.valid /\ e \in DOMAIN gains'.exercises) <=> Qualifies(e)
             /\ (\A e \in Exercises : ~Qualifies(e)) => gains' = NoGains]_vars

\* squat has two records and is reported; bench has two records, the first
\* of value 0, and is left out
C12_Witness ==
    /\ response.op = "member_detail"
    /\ gains.valid
    /\ DOMAIN gains.exercises = {"squat"}
    /\ Cardinality(WindowRows("bench", state.cycle_started_at)) = 2
    /\ pr_log[Min(WindowRows("bench", state.cycle_started_at))].estimated_1rm = 0
    /\ pr_log[Max(WindowRows("bench", state.cycle_started_at))].estimated_1rm > 0

\* the notification calls of the advance about to be made
CallsOfAdvance ==
    LET r == AdvanceTransition(state, completions, Letters, now) IN
    NotificationCalls(r.entered_deload, r.state.deload_mode, r.cycle_reset)

\* C13: notification dispatch is fire-and-forget: when a notification call
\* raises during an advance, the advance still returns success and what it
\* changed stays committed: the counter increment, the position advance and
\* the deload transition.
C13_NotificationFailureKeepsAdvance ==
    [][\A fault \in NotifyFaults :
        (/\ AdvanceWith(MaxPosition, fault)
         /\ Letters # << >>
         /\ fault \in Range(CallsOfAdvance))
        => LET position == IF state.exists THEN state.current_position ELSE 0
               letter == LetterAt(Letters, position)
           IN /\ response'.status = 200
              /\ state'.exists
              /\ state'.current_position = position + 1
              /\ state'.deload_mode = response'.entered_deload
              /\ IF response'.entered_deload
                 THEN \A l \in Range(Letters) : completions'[l] = 0
                 ELSE completions'[letter] =
                          (IF completions[letter] = NoRow THEN 0
                           ELSE completions[letter]) + 1]_vars

\* the advance that entered deload returned success although its first
\* notification call raised
C13_Witness ==
    /\ response.op = "advance"
    /\ response.status = 200
    /\ response.entered_deload
    /\ state.deload_mode
    /\ notifications = {}
    /\ state.current_position = COMPLETIONS_PER_LETTER * NumLetters
    /\ CountsAllZero

InDeload == state.exists /\ state.deload_mode

\* C17 as stated: the 'workout complete' notification is fired only by a
\* pure normal advance: one that starts in Normal mode and does not enter
\* Deload.
C17_AsStated ==
    [][(advance_carousel /\ "workout_completion" \in notifications')
       => ~InDeload /\ ~response'.entered_deload]_vars

\* C17 amended: the 'workout complete' notification is fired only by an
\* advance that starts in Normal mode, the advance that enters Deload
\* included; an advance that starts in Deload (a deload-pass advance or the
\* cycle-reset advance) does not fire it.
C17_WorkoutCompleteOnlyFromNormal ==
    [][advance_carousel
       => /\ "workout_completion" \in notifications' => ~InDeload
          /\ "workout_completion" \in notifications' => ~response'.cycle_reset
          /\ InDeload => "workout_completion" \notin notifications']_vars

\* a pure normal advance that fired the notification
C17_Witness ==
    /\ response.op = "advance"
    /\ response.status = 200
    /\ ~response.entered_deload
    /\ ~response.cycle_reset
    /\ ~state.deload_mode
    /\ notifications = {"workout_completion"}
    /\ state.current_position = 3

C19_CountersWithinTarget ==
    \A l \in Range(Letters) :
        completions[l] >= 0 /\ completions[l] <= COMPLETIONS_PER_LETTER
\* in the second cycle, one letter at the target and the other one short
C19_Witness ==
    /\ NumLetters = 2
    /\ state.cycle_number = 2
    /\ ~state.deload_mode
    /\ completions[1] = COMPLETIONS_PER_LETTER
    /\ completions[2] = COMPLETIONS_PER_LETTER - 1
    /\ response.op = "advance"

\* C20: go-back in deload mode with current_position > 0 leaves deload mode,
\* keeps cycle_number and cycle_started_at, decrements (floored at 0) the
\* counter of the letter at current_position - 1 and no other, and moves
\* current_position back by exactly 1.
C20_GoBackLeavesDeload ==
    [][(go_back_carousel /\ InDeload /\ state.current_position > 0)
       => LET letter == LetterAt(Letters, state.current_position - 1) IN
          /\ response'.status = 200
          /\ ~state'.deload_mode
          /\ state'.cycle_number = state.cycle_number
          /\ state'.cycle_started_at = state.cycle_started_at
          /\ state'.current_position = state.current_position - 1
          /\ completions'[letter] =
                IF completions[letter] > 0 THEN completions[letter] - 1 ELSE 0
          /\ \A l \in Range(Letters) \ {letter} :
                completions'[l] = completions[l]]_vars

\* deload left by a go-back that took back the one deload workout done: the
\* position is past the six normal passes, no counter is set, and the cycle
\* is as old as it was
C20_Witness ==
    /\ response.op = "go_back"
    /\ response.status = 200
    /\ NumLetters = 2
    /\ ~state.deload_mode
    /\ state.current_position = COMPLETIONS_PER_LETTER * NumLetters
    /\ CountsAllZero
    /\ state.cycle_number = 1
    /\ state.cycle_started_at < now

\* both requests have committed their last change
BothDone == \A p \in Callers : sessions[p].pc = "done"

\* the read-modify-write steps of the two requests interleaved: the first
\* commit came after both had read the CycleState and the completion rows
Interleaved == \E p \in Callers : sessions[p].raced

\* neither request completed a pass
NoPassCompleted ==
    \A p \in Callers : ~sessions[p].entered_deload /\ ~sessions[p].cycle_reset

\* the two calls one after the other, from the carousel before them
SerialOutcome ==
    LET st0 == [exists |-> TRUE, current_position |-> start.current_position,
                deload_mode |-> start.deload_mode, cycle_started_at |-> 0,
                cycle_number |-> start.cycle_number]
        first == AdvanceTransition(st0, start.completions, Letters, now)
    IN AdvanceTransition(first.state, first.rows, Letters, now)

SameAsSerial ==
    /\ state.current_position = SerialOutcome.state.current_position
    /\ state.deload_mode = SerialOutcome.state.deload_mode
    /\ state.cycle_number = SerialOutcome.state.cycle_number
    /\ \A l \in Range(Letters) : completions[l] = SerialOutcome.rows[l]

\* C14: when the read-modify-write steps of two advance calls of one user
\* interleave, the state they leave is one that the two calls in a row do
\* not produce; when neither call completes a pass, the counter of the
\* current letter and current_position have each risen by 1, not by 2.
C14_InterleavedAdvancesCorruptCounters ==
    (BothDone /\ Interleaved) =>
        /\ ~SameAsSerial
        /\ NoPassCompleted =>
              /\ state.current_position = start.current_position + 1
              /\ LET letter == LetterAt(Letters, start.current_position) IN
                 completions[letter] = start.completions[letter] + 1

C14_Witness ==
    /\ BothDone /\ Interleaved /\ NoPassCompleted
    /\ ~SameAsSerial
    /\ state.current_position = start.current_position + 1
    /\ completions[LetterAt(Letters, start.current_position)]
          = start.completions[LetterAt(Letters, start.current_position)] + 1
    /\ SerialOutcome.state.current_position = start.current_position + 2

\* both requests found the deload pass complete and took the branch that
\* starts a new cycle
BothCompletedDeload == \A p \in Callers : sessions[p].cycle_reset

\* C15 as stated: two concurrent advance calls that complete the same
\* deload pass leave cycle_number 2 higher than it was before them.
C15_AsStated ==
    (BothDone /\ BothCompletedDeload) =>
        state.cycle_number = start.cycle_number + 2

\* C15: two concurrent advance calls of one user never leave cycle_number
\* more than 1 higher than it was before them; when both complete the same
\* deload pass, each writes the number it computed from its own read and
\* cycle_number ends exactly 1 higher.
C15_CycleNumberNotDoubleIncremented ==
    (\E p \in Callers : sessions[p].pc # "idle") =>
        /\ state.cycle_number <= start.cycle_number + 1
        /\ (BothDone /\ BothCompletedDeload) =>
              state.cycle_number = start.cycle_number + 1

C15_Witness ==
    /\ BothDone /\ BothCompletedDeload
    /\ start.deload_mode
    /\ state.cycle_number = start.cycle_number + 1

\* the advance taken in this step completes a deload pass: the carousel is
\* in deload mode and every letter but the current one has its pass done
CompletesDeloadPass ==
    /\ response'.op = "advance" /\ response'.status = 200
    /\ state.exists /\ state.deload_mode
    /\ \A l \in Range(Letters) \ {LetterAt(Letters, state.current_position)} :
          completions[l] >= 1

\* C21: cycle_number starts at 1 and never decreases under advances,
\* go-backs and inactivity checks: each operation changes it by 0 or by
\* exactly +1, and the +1 happens only in an advance that completes a
\* deload pass or in an inactivity check that fires.
C21_CycleNumberMonotonic ==
    [][/\ state'.exists => state'.cycle_number >= 1
       /\ (~state.exists /\ state'.exists /\ ~response'.reset) =>
             state'.cycle_number = 1
       /\ state'.cycle_number \in {state.cycle_number, state.cycle_number + 1}
       /\ state'.cycle_number = state.cycle_number + 1 =>
             \/ CompletesDeloadPass
             \/ response'.op = "check_inactivity_reset" /\ response'.reset]_vars

C21_Witness ==
    /\ state.exists /\ state.cycle_number = 3
    /\ response.op = "check_inactivity_reset" /\ response.reset
    /\ latest_pr.exists

\* C30: whenever deload_mode is true, under advances, go-backs and
\* inactivity checks on a fixed plan from a fresh user, every completion
\* counter is 0 or 1 and the counter of at least one letter is 0.
C30_DeloadCountersAreFlags ==
    (state.exists /\ state.deload_mode) =>
        /\ \A l \in Range(Letters) : completions[l] \in {0, 1}
        /\ \E l \in Range(Letters) : completions[l] = 0

C30_Witness ==
    /\ state.exists /\ state.deload_mode
    /\ NumLetters = 2
    /\ \E l \in Range(Letters) : completions[l] = 1
    /\ \E l \in Range(Letters) : completions[l] = 0
    /\ response.op = "advance"

\* C27: once an inactivity check has reset the cycle and no lift has been
\* logged since, the next inactivity check leaves cycle_number,
\* current_position, cycle_started_at, deload_mode and the counters
\* unchanged.
C27_InactivityResetIdempotent ==
    [][(/\ response.op = "check_inactivity_reset" /\ response.reset
        /\ response'.op = "check_inactivity_reset"
        /\ latest_pr' = latest_pr) =>
           /\ state' = state
           /\ completions' = completions]_vars

\* C26: for every current_position and every non-empty letter set, the
\* current letter that the carousel read and the advance use is
\* letters[current_position mod N] over the sorted letters of the call:
\* the index is within 0..N-1 and the letter is one of the user's letters,
\* however the letters were added or removed between the calls.
C26_CurrentLetterResolvedByModulo ==
    (response.op \in {"state", "advance"} /\ Letters # << >>) =>
        /\ current.index \in 0..(NumLetters - 1)
        /\ current.letter = Letters[current.index + 1]
        /\ current.letter \in Range(Letters)
        /\ response.op = "state" =>
              current.index = state.current_position % NumLetters

C26_Witness ==
    /\ response.op = "state"
    /\ Letters = <<2>>
    /\ state.current_position = 3
    /\ completions[2] = 1
    /\ current = [index |-> 0, letter |-> 2]

\* a request has committed the transition of its advance (deload entered,
\* or a new cycle started) and not yet the advance of the position
TransitionCommittedAlone ==
    \E p \in Callers : sessions[p].pc \in {"committed", "reloaded"}

\* C28: current_position is >= 0 in every committed state, the states
\* committed part-way through one advance call included, and no committed
\* state shows the mode or cycle transition of an advance without its
\* advance of the position.
C28_CommittedPositionNonNegative ==
    /\ state.current_position >= 0
    /\ ~TransitionCommittedAlone

\* C22: charge_up_count is within 0..5 after any sequence of logs; with
\* work_set_count >= 8, a log that is not a new best and is at least 85%
\* of the existing best raises the counter by exactly 1, or leaves it at 5;
\* a log below 85% of the best changes neither the counter nor its
\* timestamp and emits no event.
C22_ChargeUpCounterCapped ==
    [][\A e \in Exercises, estimated_1rm \in E1RMs, best_e1rm \in Bests \ {None, 0} :
          /\ game_states'[e].charge_up_count \in 0..5
          /\ update_game_state_on_log(e, estimated_1rm, FALSE, best_e1rm)
               => LET k == game_states[e].charge_up_count IN
             /\ (/\ game_states'[e].work_set_count >= 8
                 /\ estimated_1rm * 100 >= 85 * best_e1rm)
                => /\ game_states'[e].charge_up_count = IF k = 5 THEN 5 ELSE k + 1
                   /\ game_states'[e].charge_up_last_updated = now
             /\ estimated_1rm * 100 < 85 * best_e1rm
                => /\ game_states'[e].charge_up_count = k
                   /\ game_states'[e].charge_up_last_updated
                         = game_states[e].charge_up_last_updated
                   /\ game_update'.result.kind = "none"
                   /\ ~game_update'.charge_up_released]_vars

C22_Witness ==
    /\ game_update.exercise = "squat"
    /\ ~game_update.is_pr
    /\ game_update.estimated_1rm = 85 /\ game_update.best_e1rm = 100
    /\ game_update.result.kind = "charge"
    /\ game_states["squat"].charge_up_count = 5
    /\ game_states["squat"].work_set_count = 14
    /\ ~game_states["bench"].exists

\* the exercises with a log of the session below 80% of their own best
ExercisesBelowBest ==
    {e \in Exercises :
        \E i \in 1..Len(bad_day.session_logs) :
            /\ bad_day.session_logs[i].exercise = e
            /\ bad_day.best_e1rms[e] > 0
            /\ bad_day.session_logs[i].estimated_1rm * 100 < 80 * bad_day.best_e1rms[e]}

\* C25: a session is flagged a bad day if and only if at least 2 distinct
\* exercises logged in the session are each below 80% of their own best;
\* several logs below the threshold of one and the same exercise, with no
\* other exercise below it, do not flag a bad day.
C25_BadDayNeedsTwoExercises ==
    bad_day.computed =>
        (bad_day.detected <=> Cardinality(ExercisesBelowBest) >= 2)

\* the reframe types of the last game state computed
ReframeTypesShown == {r[1] : r \in reframes.list}

\* C24: in the reframes of a computed game state, charge-up (R1) and swap
\* (R14) reframes appear only at stage 3 or more; cycle-summary reframes
\* (R2, R13) appear only at stage 3 or more with deload_mode true; the
\* return-from-disruption (R4, R7) and deload (R6) reframes are not gated
\* by the stage.
C24_ReframeGating ==
    reframes.computed =>
        /\ (ReframeTypesShown \cap {"R1", "R14"} # {}) => reframes.stage >= 3
        /\ (ReframeTypesShown \cap {"R2", "R13"} # {})
              => (reframes.stage >= 3 /\ reframes.deload_mode)
        /\ "R6" \in ReframeTypesShown <=> reframes.deload_mode

C24_Witness ==
    /\ reframes.computed /\ reframes.stage = 1
    /\ {"R4", "R7", "R6"} \subseteq ReframeTypesShown

\* the cycle was reset after the last charge-up event of exercise e, whose
\* counter is not 0
ChargeOutlivedReset(e) ==
    /\ state.exists
    /\ game_states[e].exists
    /\ game_states[e].charge_up_count > 0
    /\ game_states[e].charge_up_last_updated # None
    /\ state.cycle_started_at > game_states[e].charge_up_last_updated

\* C23: when a cycle reset has set cycle_started_at later than the
\* charge_up_last_updated of an exercise whose charge_up_count is > 0, the
\* next computation of the game state sets that counter to 0 before it
\* builds the per-exercise data and the reframes: it reports charge_up 0
\* and no pressure-building (R1) reframe for that exercise.
C23_ChargeUpDecayOnCompute ==
    [][\A e \in Exercises :
          (ChargeOutlivedReset(e) /\ compute_game_state)
          => /\ game'.counts[e] = 0
             /\ game'.charge_up[e] = 0
             /\ e \notin game'.pressure]_vars

C23_Witness ==
    /\ game.computed /\ game.stage = 3
    /\ ChargeOutlivedReset("squat")
    /\ game_states["squat"].work_set_count >= 8
    /\ game.counts["squat"] = 0
    /\ game.charge_up["squat"] = 0
    /\ "squat" \notin game.pressure

\* a log of exercise e that the charge-up logic acts on: the row has
\* reached the activation floor once the log is counted
LoggedActive(e) ==
    /\ log_set
    /\ game_update'.exercise = e
    /\ game_states'[e].work_set_count >= CHARGEUP_MIN_WORK_SETS

\* C29: charge-up pressure never survives a cycle reset: a counter value
\* accumulated before the reset is zeroed before it is incremented,
\* released or reported after the reset.  A near-best log that arrives
\* after the reset and before the next computation of the game state
\* counts from 0 (the counter becomes 1), a new best in that position
\* releases nothing, and a computation of the game state reports 0.
C29_ChargeUpNeverSurvivesReset ==
    [][\A e \in Exercises :
          /\ (ChargeOutlivedReset(e) /\ LoggedActive(e) /\ ~game_update'.is_pr)
                => game_states'[e].charge_up_count = 1
          /\ (ChargeOutlivedReset(e) /\ LoggedActive(e) /\ game_update'.is_pr)
                => /\ ~game_update'.charge_up_released
                   /\ game_update'.charge_up_released_count = 0
          /\ (ChargeOutlivedReset(e) /\ compute_game_state)
                => game'.charge_up[e] = 0]_vars

====
